---- MODULE Spec2Model ----
(***************************************************************************)
(* Model of crates/image_viewer/src/image_viewer.rs: the image_viewers      *)
(* table and its queries (mod persistence), and the ImageView item          *)
(* lifecycle (new / on_image_event / clone_on_split / deserialize /         *)
(* cleanup / serialize).                                                    *)
(***************************************************************************)
EXTENDS Integers, Sequences, FiniteSets, TLC

\* ------------------------------------------------------------------ bounds
MaxItem == 2
MaxWorkspace == 2
MaxAlive == 1
MaxPending == 1
MaxInFlight == 2

ItemIds == 1..MaxItem
WorkspaceIds == 1..MaxWorkspace

\* image_path is an opaque BLOB: the queries store it and hand it back, and
\* nothing compares, orders or inspects it. Two distinct absolute paths
\* distinguish a row's path from every other path.
Paths == {"/a", "/b"}

\* Option::None of an Option<PathBuf>.
None == "None"

\* Vec<ItemId> arguments of delete_unloaded_items, up to MaxAlive entries
\* (order and repetitions are kept: every entry is bound as a parameter).
AliveVecs == UNION {[1..n -> ItemIds] : n \in 0..MaxAlive}

VARIABLES
    workspaces,   \* rows of the workspaces table (the referenced parent keys)
    rows,         \* rows of the image_viewers table
    views,        \* per item id: the ImageView of its pane, if any
    tasks,        \* per item id: the deserialize task in flight, if any
    pending,      \* save_image_path writes spawned on the background executor
    last          \* the last operation: its name, arguments and result

vars == <<workspaces, rows, views, tasks, pending, last>>

\* --------------------------------------------------- image_viewers schema
Row(workspace_id, item_id, image_path) ==
    [workspace_id |-> workspace_id, item_id |-> item_id, image_path |-> image_path]

\* PRIMARY KEY(workspace_id, item_id)
PrimaryKeyConflict(r, s) ==
    r.workspace_id = s.workspace_id /\ r.item_id = s.item_id

\* item_id INTEGER UNIQUE
UniqueItemIdConflict(r, s) == r.item_id = s.item_id

\* A schema without the UNIQUE constraint on item_id: only the primary key.
SchemaConflictPrimaryKeyOnly(r, s) == PrimaryKeyConflict(r, s)

\* Two rows that the table's uniqueness constraints forbid to coexist.
SchemaConflict(r, s) == PrimaryKeyConflict(r, s) \/ UniqueItemIdConflict(r, s)

\* FOREIGN KEY(workspace_id) REFERENCES workspaces(workspace_id)
ForeignKeyOk(ws, r) == r.workspace_id \in ws

\* The table satisfies its uniqueness constraints.
ConstraintsOk(rs) ==
    \A r \in rs : \A s \in rs : SchemaConflict(r, s) => r = s

\* ---------------------------------------------------------------- queries
\* INSERT OR REPLACE without the REPLACE conflict resolution (plain INSERT).
save_image_path_no_replace(ws, rs, item_id, workspace_id, image_path) ==
    LET new == Row(workspace_id, item_id, image_path)
    IN  IF ~ForeignKeyOk(ws, new) \/ \E r \in rs : SchemaConflict(r, new)
        THEN [ok |-> FALSE, rows |-> rs]
        ELSE [ok |-> TRUE, rows |-> rs \cup {new}]

\* INSERT OR IGNORE: on a conflict the row already there is kept.
save_image_path_or_ignore(ws, rs, item_id, workspace_id, image_path) ==
    LET new == Row(workspace_id, item_id, image_path)
    IN  IF ~ForeignKeyOk(ws, new)
        THEN [ok |-> FALSE, rows |-> rs]
        ELSE IF \E r \in rs : SchemaConflict(r, new)
        THEN [ok |-> TRUE, rows |-> rs]
        ELSE [ok |-> TRUE, rows |-> rs \cup {new}]

\* An INSERT OR REPLACE that replaces only the row with the same primary key.
save_image_path_replace_same_key(ws, rs, item_id, workspace_id, image_path) ==
    LET new == Row(workspace_id, item_id, image_path)
    IN  IF ~ForeignKeyOk(ws, new)
        THEN [ok |-> FALSE, rows |-> rs]
        ELSE [ok |-> TRUE,
              rows |-> {r \in rs : ~PrimaryKeyConflict(r, new)} \cup {new}]

\* INSERT OR REPLACE INTO image_viewers(item_id, workspace_id, image_path)
\* VALUES (?, ?, ?): rows in conflict with the new row on a uniqueness
\* constraint are deleted, then the row is inserted; a foreign-key violation
\* fails the statement and leaves the table as it was.
save_image_path(ws, rs, item_id, workspace_id, image_path) ==
    LET new == Row(workspace_id, item_id, image_path)
    IN  IF ~ForeignKeyOk(ws, new)
        THEN [ok |-> FALSE, rows |-> rs]
        ELSE [ok |-> TRUE,
              rows |-> {r \in rs : ~SchemaConflict(r, new)} \cup {new}]

\* A SELECT whose two parameters are bound in the wrong order.
get_image_path_swapped_binds(rs, item_id, workspace_id) ==
    LET found == {r \in rs : r.item_id = workspace_id /\ r.workspace_id = item_id}
    IN  IF found = {} THEN None ELSE (CHOOSE r \in found : TRUE).image_path

\* SELECT that ignores the workspace_id.
get_image_path_any_workspace(rs, item_id, workspace_id) ==
    LET found == {r \in rs : r.item_id = item_id}
    IN  IF found = {} THEN None ELSE (CHOOSE r \in found : TRUE).image_path

\* SELECT image_path FROM image_viewers WHERE item_id = ? AND workspace_id = ?
\* as Result<Option<PathBuf>>: None when no row matches.
get_image_path(rs, item_id, workspace_id) ==
    LET found == {r \in rs : r.item_id = item_id /\ r.workspace_id = workspace_id}
    IN  IF found = {} THEN None ELSE (CHOOSE r \in found : TRUE).image_path

\* An UPDATE without the item_id condition: every row of old_id is moved.
update_workspace_id_all_items(ws, rs, new_id, old_id, item_id) ==
    LET hit == {r \in rs : r.workspace_id = old_id}
        moved == {Row(new_id, r.item_id, r.image_path) : r \in hit}
        after == (rs \ hit) \cup moved
    IN  IF /\ \A r \in moved : ForeignKeyOk(ws, r)
           /\ Cardinality(after) = Cardinality(rs)
           /\ ConstraintsOk(after)
        THEN [ok |-> TRUE, rows |-> after]
        ELSE [ok |-> FALSE, rows |-> rs]

\* UPDATE image_viewers SET workspace_id = ? WHERE workspace_id = ? AND item_id = ?
\* A constraint violation fails the statement and leaves the table as it was.
update_workspace_id(ws, rs, new_id, old_id, item_id) ==
    LET hit == {r \in rs : r.workspace_id = old_id /\ r.item_id = item_id}
        moved == {Row(new_id, r.item_id, r.image_path) : r \in hit}
        after == (rs \ hit) \cup moved
    IN  IF /\ \A r \in moved : ForeignKeyOk(ws, r)
           /\ Cardinality(after) = Cardinality(rs)
           /\ ConstraintsOk(after)
        THEN [ok |-> TRUE, rows |-> after]
        ELSE [ok |-> FALSE, rows |-> rs]

\* The ids bound to the placeholders of the NOT IN (...) list.
BoundIds(alive_items) == {alive_items[k] : k \in 1..Len(alive_items)}

\* DELETE ... WHERE item_id NOT IN (...) without the workspace_id condition.
delete_unloaded_items_all_workspaces(rs, workspace, alive_items) ==
    {r \in rs : r.item_id \in BoundIds(alive_items)}

\* A DELETE that removes only the first row it finds to delete.
delete_unloaded_items_first_only(rs, workspace, alive_items) ==
    LET dead == {r \in rs : r.workspace_id = workspace
                             /\ r.item_id \notin BoundIds(alive_items)}
    IN  IF dead = {} THEN rs
        ELSE rs \ {CHOOSE r \in dead : \A s \in dead : r.item_id <= s.item_id}

\* DELETE FROM image_viewers WHERE workspace_id = ? AND item_id NOT IN (?, ...)
delete_unloaded_items(rs, workspace, alive_items) ==
    {r \in rs : ~(r.workspace_id = workspace /\ r.item_id \notin BoundIds(alive_items))}

\* A foreign key without ON DELETE CASCADE that is not enforced: the
\* referencing rows stay.
delete_workspace_no_cascade(rs, workspace_id) == rs

\* A cleanup whose task never runs the delete.
cleanup_without_delete(rs, workspace_id, alive_items) == rs

\* ImageView::cleanup: the task spawned runs
\* IMAGE_VIEWER.delete_unloaded_items(workspace_id, alive_items).
cleanup(rs, workspace_id, alive_items) ==
    delete_unloaded_items(rs, workspace_id, alive_items)

\* Deleting a workspaces row: ON DELETE CASCADE removes the referencing rows.
delete_workspace(rs, workspace_id) ==
    {r \in rs : r.workspace_id # workspace_id}

\* ------------------------------------------------------------ item entity
\* An ImageItem (the shared image record) is named by the path it was opened at.
ImageItems == Paths

\* project::image_store::ImageItemEvent
ImageItemEvents == {"FileHandleChanged", "Reloaded", "ReloadNeeded"}

\* workspace.database_id() == None: the workspace has no database id.
NoDatabaseId == 0

\* Model<Project> handles: the project of the workspace window, and the
\* project of another window.
Projects == {"project", "other_project"}

\* The project the host passes to for_project_item and deserialize in the
\* workspace window of the pane.
WorkspaceProject == "project"

\* No FocusHandle.
NoFocusHandle == 0

\* No ImageView in the pane of an item id.
NoView == [state |-> "Unloaded", image_item |-> None, subscribed |-> FALSE,
           project |-> None, focus_handle |-> NoFocusHandle]

\* cx.focus_handle(): a handle that no live view holds (the least one free).
focus_handle(vs) ==
    CHOOSE f \in 1..(MaxItem + 1) :
        /\ \A i \in ItemIds : vs[i].focus_handle # f
        /\ \A g \in 1..(f - 1) : \E i \in ItemIds : vs[i].focus_handle = g

\* ImageView::new: subscribes on_image_event to the image item and builds
\* the view; focus is the value of cx.focus_handle().
ImageView_new(image_item, project, focus) ==
    [state |-> "Loaded", image_item |-> image_item, subscribed |-> TRUE,
     project |-> project, focus_handle |-> focus]

\* A clone_on_split that hands the original's focus handle to the duplicate.
clone_on_split_same_focus(self, focus) ==
    [state |-> "Loaded", image_item |-> self.image_item, subscribed |-> FALSE,
     project |-> self.project, focus_handle |-> self.focus_handle]

\* ImageView::clone_on_split: Some(view) built by cx.new_view from clones of
\* self's image_item and project handles and a new focus handle. ImageView::new
\* is not called: the view is built without cx.subscribe.
clone_on_split(self, focus) ==
    [state |-> "Loaded", image_item |-> self.image_item, subscribed |-> FALSE,
     project |-> self.project, focus_handle |-> focus]

\* on_image_event with the match arms swapped.
on_image_event_swapped(event) ==
    IF event = "ReloadNeeded"
    THEN [emitted |-> <<"TitleChanged">>, notified |-> 1]
    ELSE [emitted |-> <<>>, notified |-> 0]

\* ImageView::on_image_event: the ImageViewEvents the view emits (cx.emit)
\* and the number of redraw requests (cx.notify).
on_image_event(event) ==
    IF event \in {"FileHandleChanged", "Reloaded"}
    THEN [emitted |-> <<"TitleChanged">>, notified |-> 1]
    ELSE [emitted |-> <<>>, notified |-> 0]

\* should_serialize that asks for a save on every event.
should_serialize_always(event) == TRUE

\* ImageView::should_serialize
should_serialize(event) == FALSE

\* serialize without the early return for a file that is not local.
serialize_no_local_check(database_id, item_id, abs_path) ==
    IF database_id = NoDatabaseId THEN <<>>
    ELSE <<[item_id |-> item_id, workspace_id |-> database_id,
            image_path |-> abs_path]>>

\* ImageView::serialize: database_id is workspace.database_id(), abs_path the
\* absolute path of image_item.file.as_local() (None when the file is not
\* local). The result is the writes spawned: <<>> stands for returning None.
serialize(database_id, item_id, abs_path) ==
    IF database_id = NoDatabaseId THEN <<>>
    ELSE IF abs_path = None THEN <<>>
    ELSE <<[item_id |-> item_id, workspace_id |-> database_id,
            image_path |-> abs_path]>>

\* No deserialize task for an item id.
NoTask == [pc |-> "idle", workspace_id |-> NoDatabaseId, image_path |-> None,
           calls |-> <<>>, had_row |-> FALSE]

\* A lookup that goes on with an empty path when none is stored.
lookup_image_path_or_default(rs, item_id, workspace_id) ==
    LET path == get_image_path(rs, item_id, workspace_id)
    IN  [ok |-> TRUE, error |-> "",
         image_path |-> IF path = None THEN "" ELSE path]

\* deserialize: IMAGE_VIEWER.get_image_path(item_id, workspace_id)?
\*     .ok_or_else(|| anyhow!("No image path found"))?
lookup_image_path(rs, item_id, workspace_id) ==
    LET path == get_image_path(rs, item_id, workspace_id)
    IN  IF path = None
        THEN [ok |-> FALSE, error |-> "No image path found", image_path |-> None]
        ELSE [ok |-> TRUE, error |-> "", image_path |-> path]

\* deserialize: find_or_create_worktree(..).await.context("Path not found")?
resolved(found) ==
    IF found THEN [ok |-> TRUE, error |-> ""]
    ELSE [ok |-> FALSE, error |-> "Path not found"]

\* A deserialize that builds the view before it looks at open_image's result.
opened_image_view_first(opened, image_path, project, focus) ==
    IF opened
    THEN [ok |-> TRUE, error |-> "",
          view |-> ImageView_new(image_path, project, focus)]
    ELSE [ok |-> FALSE, error |-> "open_image failed",
          view |-> ImageView_new(image_path, project, focus)]

\* deserialize: project.open_image(project_path).await?, then
\* cx.new_view(|cx| ImageView::new(image_item, project, cx)).
opened_image(opened, image_path, project, focus) ==
    IF opened
    THEN [ok |-> TRUE, error |-> "",
          view |-> ImageView_new(image_path, project, focus)]
    ELSE [ok |-> FALSE, error |-> "open_image failed", view |-> NoView]

\* ------------------------------------------------------------------- Init
Init ==
    /\ workspaces = WorkspaceIds
    /\ rows = {}
    /\ views = [i \in ItemIds |-> NoView]
    /\ tasks = [i \in ItemIds |-> NoTask]
    /\ pending = <<>>
    /\ last = [op |-> "init"]

\* ---------------------------------------------------- store operations
\* Each operation records itself in `last`; `repeat` says that it was called
\* with the arguments of the (successful) operation right before it.
\* `cause` names who issued the write: a direct call of the query ("call"),
\* ImageView::serialize called by the host ("serialize"), or the host's
\* reaction to an item event for which should_serialize held ("event").
Write(item_id, workspace_id, image_path, cause) ==
    LET res == save_image_path(workspaces, rows, item_id, workspace_id, image_path)
    IN  /\ rows' = res.rows
        /\ last' = [op |-> "save_image_path", item_id |-> item_id,
                    cause |-> cause,
                    workspace_id |-> workspace_id, image_path |-> image_path,
                    ok |-> res.ok,
                    rekeyed |-> \E r \in rows \ res.rows :
                                    r.workspace_id # workspace_id,
                    changed |-> res.rows # rows,
                    repeat |-> /\ last.op = "save_image_path"
                               /\ last.ok
                               /\ last.item_id = item_id
                               /\ last.workspace_id = workspace_id
                               /\ last.image_path = image_path]
        /\ UNCHANGED workspaces

SaveImagePath(item_id, workspace_id, image_path) ==
    /\ Write(item_id, workspace_id, image_path, "call")
    /\ UNCHANGED <<views, tasks, pending>>

\* `after_path` is the path written by a successful save of the same pair
\* with no write between that save and this read (else None).
GetImagePath(item_id, workspace_id) ==
    /\ last' = [op |-> "get_image_path", item_id |-> item_id,
                workspace_id |-> workspace_id, ok |-> TRUE,
                ret |-> get_image_path(rows, item_id, workspace_id),
                after_path |->
                    IF /\ last.op \in {"save_image_path", "get_image_path"}
                       /\ last.ok
                       /\ last.item_id = item_id
                       /\ last.workspace_id = workspace_id
                    THEN (IF last.op = "save_image_path" THEN last.image_path
                          ELSE last.after_path)
                    ELSE None]
    /\ UNCHANGED <<workspaces, rows, views, tasks, pending>>

UpdateWorkspaceId(new_id, old_id, item_id) ==
    LET res == update_workspace_id(workspaces, rows, new_id, old_id, item_id)
    IN  /\ rows' = res.rows
        /\ last' = [op |-> "update_workspace_id", new_id |-> new_id,
                    old_id |-> old_id, item_id |-> item_id, ok |-> res.ok,
                    moved |-> res.ok /\ \E r \in rows : /\ r.workspace_id = old_id
                                                       /\ r.item_id = item_id]
        /\ UNCHANGED <<workspaces, views, tasks, pending>>

DeleteUnloadedItems(workspace, alive_items) ==
    LET after == delete_unloaded_items(rows, workspace, alive_items)
        again == /\ last.op = "delete_unloaded_items"
                 /\ last.workspace = workspace
                 /\ last.alive_items = alive_items
    IN  /\ rows' = after
        /\ last' = [op |-> "delete_unloaded_items", workspace |-> workspace,
                    alive_items |-> alive_items, ok |-> TRUE,
                    deleted |-> after # rows,
                    repeat |-> again,
                    first_deleted |-> again /\ (last.deleted \/ last.first_deleted)]
        /\ UNCHANGED <<workspaces, views, tasks, pending>>

DeleteWorkspace(workspace_id) ==
    /\ workspace_id \in workspaces
    /\ workspaces' = workspaces \ {workspace_id}
    /\ rows' = delete_workspace(rows, workspace_id)
    /\ last' = [op |-> "delete_workspace", workspace_id |-> workspace_id,
                removed |-> \E r \in rows : r.workspace_id = workspace_id]
    /\ UNCHANGED <<views, tasks, pending>>

NextStore ==
    \/ \E i \in ItemIds, w \in WorkspaceIds, p \in Paths : SaveImagePath(i, w, p)
    \/ \E i \in ItemIds, w \in WorkspaceIds : GetImagePath(i, w)
    \/ \E n \in WorkspaceIds, o \in WorkspaceIds, i \in ItemIds : UpdateWorkspaceId(n, o, i)
    \/ \E w \in WorkspaceIds, a \in AliveVecs : DeleteUnloadedItems(w, a)
    \/ \E w \in WorkspaceIds : DeleteWorkspace(w)

SpecStore == Init /\ [][NextStore]_vars

\* The store under the operations that bind an item's row to a workspace or
\* remove a workspace: the same tables are reachable as under NextStore.
NextRekey ==
    \/ \E i \in ItemIds, w \in WorkspaceIds, p \in Paths : SaveImagePath(i, w, p)
    \/ \E n \in WorkspaceIds, o \in WorkspaceIds, i \in ItemIds : UpdateWorkspaceId(n, o, i)
    \/ \E w \in WorkspaceIds : DeleteWorkspace(w)

SpecRekey == Init /\ [][NextRekey]_vars

\* ------------------------------------------------------ item lifecycle
\* ProjectItem::for_project_item: the host opens an image in the pane of
\* item_id.
OpenImage(item_id, image_item, project) ==
    /\ views[item_id].state = "Unloaded"
    /\ tasks[item_id].pc = "idle"
    /\ views' = [views EXCEPT ![item_id] =
                    ImageView_new(image_item, project, focus_handle(views))]
    /\ last' = [op |-> "for_project_item", item_id |-> item_id]
    /\ UNCHANGED <<workspaces, rows, tasks, pending>>

\* The pane of item_id is closed: the view and its subscription are dropped.
\* `split` is the duplicate when the view closed is the original of the
\* clone_on_split right before (else 0).
CloseView(item_id) ==
    /\ views[item_id].state = "Loaded"
    /\ views' = [views EXCEPT ![item_id] = NoView]
    /\ last' = [op |-> "close", item_id |-> item_id,
                split |-> IF last.op = "clone_on_split" /\ last.item_id = item_id
                          THEN last.clone_id ELSE 0]
    /\ UNCHANGED <<workspaces, rows, tasks, pending>>

\* The host splits the pane of item_id: clone_on_split is called on its view
\* and the view returned is put in a new pane as item clone_id. `calls` are
\* the store queries made.
CloneOnSplit(item_id, clone_id) ==
    /\ views[item_id].state = "Loaded"
    /\ clone_id # item_id
    /\ views[clone_id].state = "Unloaded"
    /\ tasks[clone_id].pc = "idle"
    /\ views' = [views EXCEPT ![clone_id] =
                    clone_on_split(views[item_id], focus_handle(views))]
    /\ last' = [op |-> "clone_on_split", item_id |-> item_id,
                clone_id |-> clone_id, some |-> TRUE, calls |-> <<>>]
    /\ UNCHANGED <<workspaces, rows, tasks, pending>>

\* The host calls cleanup(workspace_id, alive_items) and the task it spawned
\* runs.
Cleanup(workspace_id, alive_items) ==
    LET after == cleanup(rows, workspace_id, alive_items)
    IN  /\ rows' = after
        /\ last' = [op |-> "cleanup", workspace |-> workspace_id,
                    alive_items |-> alive_items, deleted |-> after # rows]
        /\ UNCHANGED <<workspaces, views, tasks, pending>>

\* The views whose subscription delivers the events of image_item.
Subscribers(image_item) ==
    {i \in ItemIds : /\ views[i].state = "Loaded"
                     /\ views[i].subscribed
                     /\ views[i].image_item = image_item}

\* What the event makes each view do: on_image_event in the subscribed views,
\* nothing in the others.
Handled(image_item, event) ==
    [i \in ItemIds |-> IF i \in Subscribers(image_item)
                       THEN on_image_event(event)
                       ELSE [emitted |-> <<>>, notified |-> 0]]

\* The views the host serializes in reaction to the ImageViewEvents emitted:
\* those for which should_serialize holds of an emitted event.
Autosaved(handled) ==
    {i \in ItemIds : \E k \in 1..Len(handled[i].emitted) :
                         should_serialize(handled[i].emitted[k])}

\* A write spawned on the background executor, with who issued it and
\* behind how many writes still in flight it was spawned.
Spawned(write, cause) ==
    [item_id |-> write.item_id, workspace_id |-> write.workspace_id,
     image_path |-> write.image_path, cause |-> cause, behind |-> Len(pending)]

\* An ImageItem emits an event: on_image_event runs in every subscribed view;
\* the host receives each ImageViewEvent emitted and, when should_serialize
\* holds of it, serializes that view (database_id and abs_path as read then).
ImageItemEvent(image_item, event) ==
    LET handled == Handled(image_item, event)
        autosave == Autosaved(handled)
    IN  /\ IF autosave = {}
           THEN pending' = pending
           ELSE \E i \in autosave, d \in WorkspaceIds \cup {NoDatabaseId},
                  p \in Paths \cup {None} :
                    LET writes == serialize(d, i, p)
                    IN  /\ Len(pending) + Len(writes) <= MaxPending
                        /\ pending' = pending \o
                               [k \in 1..Len(writes) |-> Spawned(writes[k], "event")]
        /\ last' = [op |-> "image_event", image_item |-> image_item,
                    event |-> event,
                    title_changed |-> [i \in ItemIds |-> Len(handled[i].emitted)],
                    notified |-> [i \in ItemIds |-> handled[i].notified],
                    autosaved |-> autosave]
        /\ UNCHANGED <<workspaces, rows, views, tasks>>

\* The host calls serialize on the view of item_id, nothing awaiting the
\* writes spawned before; at most cap writes are in flight.
SerializeWithin(cap, item_id, database_id, abs_path) ==
    LET writes == serialize(database_id, item_id, abs_path)
    IN  /\ views[item_id].state = "Loaded"
        /\ Len(pending) + Len(writes) <= cap
        /\ pending' = pending \o
               [k \in 1..Len(writes) |-> Spawned(writes[k], "serialize")]
        /\ last' = [op |-> "serialize", item_id |-> item_id,
                    database_id |-> database_id, abs_path |-> abs_path,
                    some |-> writes # <<>>]
        /\ UNCHANGED <<workspaces, rows, views, tasks>>

\* The host calls serialize on the view of item_id.
Serialize(item_id, database_id, abs_path) ==
    SerializeWithin(MaxPending, item_id, database_id, abs_path)

\* The background executor runs one of the spawned writes.
SerializeWrite(k) ==
    /\ k \in 1..Len(pending)
    /\ Write(pending[k].item_id, pending[k].workspace_id, pending[k].image_path,
             pending[k].cause)
    /\ pending' = [j \in 1..(Len(pending) - 1) |->
                       IF j < k THEN pending[j] ELSE pending[j + 1]]
    /\ UNCHANGED <<views, tasks>>

\* A deserialize that consumes the stored path: it deletes the item's row.
Deserialize_consuming_row(workspace_id, item_id) ==
    /\ views[item_id].state = "Unloaded"
    /\ tasks[item_id].pc = "idle"
    /\ tasks' = [tasks EXCEPT ![item_id] =
                    [pc |-> "spawned", workspace_id |-> workspace_id,
                     image_path |-> None, calls |-> <<>>, had_row |-> FALSE]]
    /\ rows' = {r \in rows : r.item_id # item_id}
    /\ last' = [op |-> "deserialize", item_id |-> item_id,
                workspace_id |-> workspace_id]
    /\ UNCHANGED <<workspaces, views, pending>>

\* The host calls deserialize(workspace_id, item_id): the task is spawned.
Deserialize(workspace_id, item_id) ==
    /\ views[item_id].state = "Unloaded"
    /\ tasks[item_id].pc = "idle"
    /\ tasks' = [tasks EXCEPT ![item_id] =
                    [pc |-> "spawned", workspace_id |-> workspace_id,
                     image_path |-> None, calls |-> <<>>, had_row |-> FALSE]]
    /\ last' = [op |-> "deserialize", item_id |-> item_id,
                workspace_id |-> workspace_id]
    /\ UNCHANGED <<workspaces, rows, views, pending>>

\* An error that also drops the tasks of the sibling items.
Fail_aborts_siblings(item_id, error, calls) ==
    /\ tasks' = [i \in ItemIds |-> NoTask]
    /\ last' = [op |-> "deserialize_done", item_id |-> item_id,
                workspace_id |-> tasks[item_id].workspace_id,
                result |-> error, calls |-> calls,
                had_row |-> tasks[item_id].had_row,
                image_path |-> tasks[item_id].image_path]
    /\ UNCHANGED views

\* The task ends with an error: nothing is constructed.
Fail(item_id, error, calls) ==
    /\ tasks' = [tasks EXCEPT ![item_id] = NoTask]
    /\ last' = [op |-> "deserialize_done", item_id |-> item_id,
                workspace_id |-> tasks[item_id].workspace_id,
                result |-> error, calls |-> calls,
                had_row |-> tasks[item_id].had_row,
                image_path |-> tasks[item_id].image_path]
    /\ UNCHANGED views

\* The task goes on to its next await.
Continue(item_id, pc, image_path, calls, had_row) ==
    /\ tasks' = [tasks EXCEPT ![item_id] =
                    [pc |-> pc, workspace_id |-> @.workspace_id,
                     image_path |-> image_path, calls |-> calls,
                     had_row |-> had_row]]
    /\ last' = [op |-> "deserialize_step", item_id |-> item_id, pc |-> pc]
    /\ UNCHANGED views

\* First poll of the task: the stored path is looked up and, when there is
\* one, project.find_or_create_worktree is called on it.
DeserializeLookup(item_id) ==
    LET t == tasks[item_id]
        found == lookup_image_path(rows, item_id, t.workspace_id)
        had_row == \E r \in rows : /\ r.item_id = item_id
                                   /\ r.workspace_id = t.workspace_id
        calls == <<"get_image_path">>
    IN  /\ t.pc = "spawned"
        /\ IF found.ok
           THEN Continue(item_id, "find_or_create_worktree", found.image_path,
                         calls \o <<"find_or_create_worktree">>, had_row)
           ELSE /\ tasks' = [tasks EXCEPT ![item_id] = NoTask]
                /\ last' = [op |-> "deserialize_done", item_id |-> item_id,
                            workspace_id |-> t.workspace_id,
                            result |-> found.error, calls |-> calls,
                            had_row |-> had_row, image_path |-> None]
                /\ UNCHANGED views
        /\ UNCHANGED <<workspaces, rows, pending>>

\* find_or_create_worktree resolves (found) or fails: on success open_image
\* is called on the project path.
DeserializeResolved(item_id, found) ==
    LET t == tasks[item_id]
        next == resolved(found)
    IN  /\ t.pc = "find_or_create_worktree"
        /\ IF next.ok
           THEN Continue(item_id, "open_image", t.image_path,
                         t.calls \o <<"open_image">>, t.had_row)
           ELSE Fail(item_id, next.error, t.calls)
        /\ UNCHANGED <<workspaces, rows, pending>>

\* open_image resolves (opened) or fails: on success the view is built by
\* ImageView::new over the image item opened at the stored path.
DeserializeOpened(item_id, opened) ==
    LET t == tasks[item_id]
        next == opened_image(opened, t.image_path, WorkspaceProject,
                             focus_handle(views))
    IN  /\ t.pc = "open_image"
        /\ IF next.ok
           THEN /\ views' = [views EXCEPT ![item_id] = next.view]
                /\ tasks' = [tasks EXCEPT ![item_id] = NoTask]
                /\ last' = [op |-> "deserialize_done", item_id |-> item_id,
                            workspace_id |-> t.workspace_id,
                            result |-> "Ok",
                            calls |-> t.calls \o <<"new_view">>,
                            had_row |-> t.had_row,
                            image_path |-> t.image_path]
           ELSE /\ views' = [views EXCEPT ![item_id] = next.view]
                /\ tasks' = [tasks EXCEPT ![item_id] = NoTask]
                /\ last' = [op |-> "deserialize_done", item_id |-> item_id,
                            workspace_id |-> t.workspace_id,
                            result |-> next.error, calls |-> t.calls,
                            had_row |-> t.had_row,
                            image_path |-> t.image_path]
        /\ UNCHANGED <<workspaces, rows, pending>>

\* The pane that awaits the deserialize of item_id is closed: the Task is
\* dropped at the await it is suspended at (`pc`) and runs no further.
CancelDeserialize(item_id) ==
    /\ tasks[item_id].pc # "idle"
    /\ tasks' = [tasks EXCEPT ![item_id] = NoTask]
    /\ last' = [op |-> "deserialize_cancelled", item_id |-> item_id,
                pc |-> tasks[item_id].pc]
    /\ UNCHANGED <<workspaces, rows, views, pending>>

\* Only the pane of item_id is in use: no other item id has a view, a task,
\* a spawned write or a row.
OnlyPane(item_id) ==
    /\ \A j \in ItemIds \ {item_id} :
           views[j] = NoView /\ tasks[j] = NoTask
    /\ \A k \in 1..Len(pending) : pending[k].item_id = item_id
    /\ \A r \in rows : r.item_id = item_id

\* The life of one pane between the host's save points: open, events,
\* serialize, the spawned writes, close.
Next ==
    \/ \E i \in ItemIds, r \in ImageItems :
           OnlyPane(i) /\ OpenImage(i, r, WorkspaceProject)
    \/ \E i \in ItemIds : OnlyPane(i) /\ CloseView(i)
    \/ \E r \in ImageItems, e \in ImageItemEvents : ImageItemEvent(r, e)
    \/ \E i \in ItemIds, d \in WorkspaceIds \cup {NoDatabaseId},
          p \in Paths \cup {None} : OnlyPane(i) /\ Serialize(i, d, p)
    \/ \E k \in 1..MaxPending : SerializeWrite(k)

Spec == Init /\ [][Next]_vars

\* The restore of one pane: rows written by earlier sessions, deserialize and
\* its awaits, close.
NextRestore ==
    \/ \E i \in ItemIds, w \in WorkspaceIds, p \in Paths :
           OnlyPane(i) /\ SaveImagePath(i, w, p)
    \/ \E i \in ItemIds, w \in WorkspaceIds : OnlyPane(i) /\ Deserialize(w, i)
    \/ \E i \in ItemIds : DeserializeLookup(i)
    \/ \E i \in ItemIds, found \in BOOLEAN : DeserializeResolved(i, found)
    \/ \E i \in ItemIds, opened \in BOOLEAN : DeserializeOpened(i, opened)
    \/ \E i \in ItemIds : CancelDeserialize(i)
    \/ \E i \in ItemIds : CloseView(i)

SpecRestore == Init /\ [][NextRestore]_vars

\* The life of one pane up to the reconciliation after it is closed: open,
\* serialize, the spawned writes, close, cleanup.
NextClose ==
    \/ \E i \in ItemIds, r \in ImageItems :
           OnlyPane(i) /\ OpenImage(i, r, WorkspaceProject)
    \/ \E i \in ItemIds, d \in WorkspaceIds \cup {NoDatabaseId},
          p \in Paths \cup {None} : OnlyPane(i) /\ Serialize(i, d, p)
    \/ \E k \in 1..MaxPending : SerializeWrite(k)
    \/ \E i \in ItemIds : CloseView(i)
    \/ \E w \in WorkspaceIds, a \in AliveVecs : Cleanup(w, a)

SpecClose == Init /\ [][NextClose]_vars

\* One pane whose host calls serialize again before the writes of earlier
\* calls have run; the executor runs the writes in any order. The calls are
\* those that spawn a write: the workspace has a database id and the file a
\* local path (which can change between calls).
NextRace ==
    \/ \E i \in ItemIds, r \in ImageItems :
           OnlyPane(i) /\ OpenImage(i, r, WorkspaceProject)
    \/ \E i \in ItemIds, d \in WorkspaceIds, p \in Paths :
           OnlyPane(i) /\ SerializeWithin(MaxInFlight, i, d, p)
    \/ \E k \in 1..MaxInFlight : SerializeWrite(k)

SpecRace == Init /\ [][NextRace]_vars

\* A session of one pane and the next one: the image is opened and
\* serialized (the calls that spawn a write), the pane is closed, and the
\* item is restored by deserialize; a workspace can be deleted meanwhile.
NextSession ==
    \/ \E i \in ItemIds, r \in ImageItems :
           OnlyPane(i) /\ OpenImage(i, r, WorkspaceProject)
    \/ \E i \in ItemIds, d \in WorkspaceIds, p \in Paths :
           OnlyPane(i) /\ Serialize(i, d, p)
    \/ \E k \in 1..MaxPending : SerializeWrite(k)
    \/ \E i \in ItemIds : CloseView(i)
    \/ \E w \in WorkspaceIds : DeleteWorkspace(w)
    \/ \E i \in ItemIds, w \in WorkspaceIds : OnlyPane(i) /\ Deserialize(w, i)
    \/ \E i \in ItemIds : DeserializeLookup(i)
    \/ \E i \in ItemIds, found \in BOOLEAN : DeserializeResolved(i, found)
    \/ \E i \in ItemIds, opened \in BOOLEAN : DeserializeOpened(i, opened)

SpecSession == Init /\ [][NextSession]_vars

\* A store left by an earlier session in which item 1 was saved for workspace
\* 1, and item 2 for workspace 1, for workspace 2 or not at all.
InitRestoreAll ==
    /\ workspaces = WorkspaceIds
    /\ rows \in {{Row(1, 1, "/a")},
                 {Row(1, 1, "/a"), Row(1, 2, "/b")},
                 {Row(1, 1, "/a"), Row(2, 2, "/a")}}
    /\ views = [i \in ItemIds |-> NoView]
    /\ tasks = [i \in ItemIds |-> NoTask]
    /\ pending = <<>>
    /\ last = [op |-> "init"]

\* The restore of a workspace: the host calls deserialize for each of its
\* items and the tasks run concurrently.
NextRestoreAll ==
    \/ \E i \in ItemIds, w \in WorkspaceIds : Deserialize(w, i)
    \/ \E i \in ItemIds : DeserializeLookup(i)
    \/ \E i \in ItemIds, found \in BOOLEAN : DeserializeResolved(i, found)
    \/ \E i \in ItemIds, opened \in BOOLEAN : DeserializeOpened(i, opened)

SpecRestoreAll == InitRestoreAll /\ [][NextRestoreAll]_vars

\* A store left by an earlier session: empty, or with a row saved for item 1.
InitSplit ==
    /\ workspaces = WorkspaceIds
    /\ rows \in {{}, {Row(1, 1, "/a")}}
    /\ views = [i \in ItemIds |-> NoView]
    /\ tasks = [i \in ItemIds |-> NoTask]
    /\ pending = <<>>
    /\ last = [op |-> "init"]

\* Several panes over shared image items: open, split, events, close.
NextSplit ==
    \/ \E i \in ItemIds, r \in ImageItems, project \in Projects :
           OpenImage(i, r, project)
    \/ \E i \in ItemIds, j \in ItemIds : CloneOnSplit(i, j)
    \/ \E r \in ImageItems, e \in ImageItemEvents : ImageItemEvent(r, e)
    \/ \E i \in ItemIds : CloseView(i)

SpecSplit == InitSplit /\ [][NextSplit]_vars

\* ============================================================ store claims
\* C1: in every reachable state of the store at most one row has any given
\* item_id: no item_id appears under two workspaces at the same time.
C1_ItemIdUnique ==
    \A r \in rows : \A s \in rows : r.item_id = s.item_id => r = s

\* C1 witness: a successful save that displaced the item's row of another
\* workspace, while another item has its own row.
C1_Witness ==
    /\ last.op = "save_image_path"
    /\ last.ok
    /\ last.rekeyed
    /\ \E r \in rows : r.item_id # last.item_id

\* C2: delete_unloaded_items(workspace, alive_items) keeps, of that workspace,
\* exactly the rows whose item_id is in alive_items (paths unchanged), deletes
\* that workspace's other rows (all of them when alive_items is empty) and
\* leaves the rows of every other workspace unchanged.
C2_DeleteUnloadedExact ==
    [][last'.op = "delete_unloaded_items" =>
          LET w == last'.workspace
              alive == {last'.alive_items[k] : k \in 1..Len(last'.alive_items)}
          IN  /\ {r \in rows' : r.workspace_id = w}
                    = {r \in rows : r.workspace_id = w /\ r.item_id \in alive}
              /\ {r \in rows' : r.workspace_id # w}
                    = {r \in rows : r.workspace_id # w}
              /\ (last'.alive_items = <<>> => ~\E r \in rows' : r.workspace_id = w)
              /\ last'.ok]_vars

\* C2 witness: a reconciliation with a non-empty alive list that deleted a row
\* of its workspace and kept another one.
C2_Witness ==
    /\ last.op = "delete_unloaded_items"
    /\ last.alive_items # <<>>
    /\ last.deleted
    /\ \E r \in rows : r.workspace_id = last.workspace

\* C3: get_image_path right after a successful save_image_path(item_id,
\* workspace_id, P), with no write in between, returns Some(P); get_image_path
\* for a pair that has no row returns None, and is no error.
C3_RoundTrip ==
    last.op = "get_image_path" =>
        /\ last.ok
        /\ (last.after_path # None => last.ret = last.after_path)
        /\ ((~\E r \in rows : /\ r.item_id = last.item_id
                              /\ r.workspace_id = last.workspace_id)
            => last.ret = None)

\* C3 witness: a read that follows the save of its own pair, another item
\* having a row too.
C3_Witness ==
    /\ last.op = "get_image_path"
    /\ last.after_path # None
    /\ last.ret = last.after_path
    /\ Cardinality(rows) > 1

\* C3 witness of the None case: a read of a pair without a row while the item
\* has a row under another workspace.
C3_WitnessNone ==
    /\ last.op = "get_image_path"
    /\ last.ret = None
    /\ \E r \in rows : r.item_id = last.item_id

\* C4: save_image_path is an idempotent upsert: a second call with the same
\* (item_id, workspace_id, path) succeeds and leaves the store as the first
\* call left it, with exactly one row for the item_id, holding that path.
C4_UpsertIdempotent ==
    (last.op = "save_image_path" /\ last.ok) =>
        /\ {r \in rows : r.item_id = last.item_id}
              = {Row(last.workspace_id, last.item_id, last.image_path)}
        /\ (last.repeat => ~last.changed)
        /\ LET again == save_image_path(workspaces, rows, last.item_id,
                                        last.workspace_id, last.image_path)
           IN  again.ok /\ again.rows = rows

\* C4 witness: the second of two identical successful saves.
C4_Witness ==
    /\ last.op = "save_image_path"
    /\ last.ok
    /\ last.repeat
    /\ Cardinality(rows) > 1

\* C5: reconciliation is idempotent: a second delete_unloaded_items with the
\* same arguments deletes nothing.
C5_ReconcileIdempotent ==
    last.op = "delete_unloaded_items" =>
        /\ (last.repeat => ~last.deleted)
        /\ ~\E r \in rows : /\ r.workspace_id = last.workspace
                            /\ \A k \in 1..Len(last.alive_items) :
                                   r.item_id # last.alive_items[k]

\* C5 witness: the second of two identical reconciliations, the first of
\* which deleted a row, with rows left in the store.
C5_Witness ==
    /\ last.op = "delete_unloaded_items"
    /\ last.repeat
    /\ last.first_deleted
    /\ rows # {}

\* C11: deleting a workspace removes every row that references it and leaves
\* the rows of the other workspaces unchanged; in every reachable state no row
\* refers to a workspace that has been deleted.
C11_CascadeDelete ==
    /\ [](\A r \in rows : r.workspace_id \in workspaces)
    /\ [][last'.op = "delete_workspace" =>
              LET w == last'.workspace_id
              IN  /\ ~\E r \in rows' : r.workspace_id = w
                  /\ {r \in rows' : r.workspace_id # w}
                        = {r \in rows : r.workspace_id # w}
                  /\ w \notin workspaces']_vars

\* C11 witness: a workspace with rows was deleted while another workspace
\* keeps its rows.
C11_Witness ==
    /\ last.op = "delete_workspace"
    /\ last.removed
    /\ rows # {}

\* C12: save_image_path(i, w2, P) either fails and changes nothing, or leaves
\* exactly one row for i, the row (w2, i, P); the item's row under another
\* workspace w1 is gone then: never do rows (w1, i) and (w2, i) both exist.
C12_SaveRekeys ==
    last.op = "save_image_path" =>
        /\ (last.ok =>
               {r \in rows : r.item_id = last.item_id}
                  = {Row(last.workspace_id, last.item_id, last.image_path)})
        /\ (~last.ok => ~last.changed /\ ~last.rekeyed)
        /\ ~\E r \in rows : \E s \in rows :
               /\ r.item_id = last.item_id
               /\ s.item_id = last.item_id
               /\ r.workspace_id # s.workspace_id

\* C12 witness: a successful save of an item that had a row under another
\* workspace.
C12_Witness ==
    /\ last.op = "save_image_path"
    /\ last.ok
    /\ last.rekeyed
    /\ ~\E r \in rows : /\ r.item_id = last.item_id
                        /\ r.workspace_id # last.workspace_id

\* C12 witness of the failure: a save into a deleted workspace failed while
\* the item keeps its row under another workspace.
C12_WitnessFails ==
    /\ last.op = "save_image_path"
    /\ ~last.ok
    /\ \E r \in rows : /\ r.item_id = last.item_id
                       /\ r.workspace_id # last.workspace_id

\* C13: update_workspace_id(new_id, old_id, item_id) that returns Ok moves the
\* row (old_id, item_id) to new_id with its item_id and image_path; every other
\* row is unchanged; nothing changes when there is no row (old_id, item_id) or
\* the statement fails; no two rows share an item_id afterwards.
C13_UpdateWorkspaceId ==
    [][last'.op = "update_workspace_id" =>
          LET hit == {r \in rows : /\ r.workspace_id = last'.old_id
                                   /\ r.item_id = last'.item_id}
              moved == {Row(last'.new_id, r.item_id, r.image_path) : r \in hit}
          IN  /\ (hit = {} => rows' = rows)
              /\ (last'.ok => rows' = (rows \ hit) \cup moved)
              /\ (~last'.ok => rows' = rows)
              /\ (rows \ hit) \subseteq rows'
              /\ \A r \in rows' : \A s \in rows' :
                     r.item_id = s.item_id => r = s]_vars

\* C13 witness: a row was moved to another workspace while another item has
\* a row that stayed.
C13_Witness ==
    /\ last.op = "update_workspace_id"
    /\ last.ok
    /\ last.moved
    /\ last.new_id # last.old_id
    /\ \E r \in rows : r.item_id = last.item_id /\ r.workspace_id = last.new_id
    /\ \E r \in rows : r.item_id # last.item_id

\* ======================================================== lifecycle claims
\* C6: for a view built by ImageView::new (every view of Spec is), a
\* ReloadNeeded event of its image item produces no TitleChanged and no redraw
\* request, and a FileHandleChanged or Reloaded event produces exactly one
\* TitleChanged and one redraw request.
C6_EventIsolation ==
    last.op = "image_event" =>
        \A i \in ItemIds :
            (views[i].state = "Loaded" /\ views[i].image_item = last.image_item) =>
                /\ (last.event = "ReloadNeeded" =>
                        last.title_changed[i] = 0 /\ last.notified[i] = 0)
                /\ (last.event \in {"FileHandleChanged", "Reloaded"} =>
                        last.title_changed[i] = 1 /\ last.notified[i] = 1)

\* C6 witness: ReloadNeeded reached a loaded view of the image item.
C6_Witness ==
    /\ last.op = "image_event"
    /\ last.event = "ReloadNeeded"
    /\ \E i \in ItemIds : /\ views[i].state = "Loaded"
                          /\ views[i].image_item = last.image_item

\* C6 witness of the other case: FileHandleChanged made a view emit.
C6_WitnessTitleChanged ==
    /\ last.op = "image_event"
    /\ last.event = "FileHandleChanged"
    /\ \E i \in ItemIds : last.title_changed[i] = 1

\* C7: should_serialize is false for every event the view emits, so no image
\* event and no TitleChanged makes the host serialize: every save_image_path
\* write, spawned or applied, was issued by a host call of serialize.
C7_NoAutosaveOnEvent ==
    /\ \A k \in 1..Len(pending) : pending[k].cause = "serialize"
    /\ (last.op = "save_image_path" => last.cause = "serialize")
    /\ (last.op = "image_event" => last.autosaved = {})

\* C7 witness: a view emitted TitleChanged while a write spawned by serialize
\* was still in flight.
C7_Witness ==
    /\ last.op = "image_event"
    /\ \E i \in ItemIds : last.title_changed[i] = 1
    /\ pending # <<>>

\* C8: a deserialize(workspace_id, item_id) for which the store has no row
\* fails with "No image path found", creates no view, and calls neither
\* find_or_create_worktree nor open_image.
C8_NoPathRecorded ==
    (last.op = "deserialize_done" /\ ~last.had_row) =>
        /\ last.result = "No image path found"
        /\ views[last.item_id] = NoView
        /\ last.calls = <<"get_image_path">>

\* C8 witness: the lookup found no row for the pair while the item has a row
\* under another workspace.
C8_Witness ==
    /\ last.op = "deserialize_done"
    /\ ~last.had_row
    /\ \E r \in rows : r.item_id = last.item_id

\* C9: deserialize yields a Loaded view only after the store lookup, the
\* worktree resolution and the image open succeeded, in that order; a failure
\* at any of them ends the task with the error and no view (no partial
\* entity, no subscription), and no view exists while the task is in flight.
C9_LoadedOnlyAfterAllSteps ==
    /\ \A i \in ItemIds : tasks[i].pc # "idle" => views[i] = NoView
    /\ last.op = "deserialize_done" =>
          IF last.result = "Ok"
          THEN /\ last.calls = <<"get_image_path", "find_or_create_worktree",
                                 "open_image", "new_view">>
               /\ last.had_row
               /\ views[last.item_id].state = "Loaded"
               /\ views[last.item_id].subscribed
               /\ views[last.item_id].image_item = last.image_path
          ELSE /\ views[last.item_id] = NoView
               /\ \/ /\ last.result = "No image path found"
                     /\ last.calls = <<"get_image_path">>
                  \/ /\ last.result = "Path not found"
                     /\ last.calls = <<"get_image_path", "find_or_create_worktree">>
                  \/ /\ last.result = "open_image failed"
                     /\ last.calls = <<"get_image_path", "find_or_create_worktree",
                                       "open_image">>

\* C9 witness: open_image failed after lookup and resolution had succeeded.
C9_Witness ==
    /\ last.op = "deserialize_done"
    /\ last.result = "open_image failed"

\* C9 witness of the success: the restored view is loaded.
C9_WitnessLoaded ==
    /\ last.op = "deserialize_done"
    /\ last.result = "Ok"

\* C14: clone_on_split always returns a view (Some), Loaded, over the same
\* image item and the same project as the original and with a focus handle
\* other than the original's; it makes no store query and changes neither
\* the store nor the original. Closing a view changes no other view: the
\* duplicate of a closed original stays Loaded over the shared image item.
C14_SplitSibling ==
    [][/\ last'.op = "clone_on_split" =>
             LET self == views[last'.item_id]
                 clone == views'[last'.clone_id]
             IN  /\ last'.some
                 /\ views[last'.clone_id] = NoView
                 /\ clone.state = "Loaded"
                 /\ clone.image_item = self.image_item
                 /\ clone.project = self.project
                 /\ clone.focus_handle # self.focus_handle
                 /\ clone.focus_handle # NoFocusHandle
                 /\ last'.calls = <<>>
                 /\ rows' = rows /\ pending' = pending
                 /\ \A i \in ItemIds \ {last'.clone_id} : views'[i] = views[i]
       /\ last'.op = "close" =>
             /\ rows' = rows
             /\ \A i \in ItemIds \ {last'.item_id} :
                    views'[i] = views[i]]_vars

\* C14 witness: the original of a split was closed and its duplicate is
\* Loaded, with a row in the store.
C14_Witness ==
    /\ last.op = "close"
    /\ last.split # 0
    /\ views[last.split].state = "Loaded"
    /\ views[last.split].image_item \in ImageItems
    /\ rows # {}

\* C15: a step of one item's deserialize, failing or not, changes neither the
\* task nor the view of any sibling, nor the store; what the step does is
\* decided by the item's own row and the outcome of its own await: a task
\* whose path is stored goes on to resolve it, a resolved one to open it, and
\* an opened one ends Ok with the view Loaded over the stored path, whatever
\* has become of the siblings.
C15_FailureIsolated ==
    [][last'.op \in {"deserialize", "deserialize_step", "deserialize_done"} =>
          LET i == last'.item_id
              t == tasks[i]
              stored == \E r \in rows : /\ r.item_id = i
                                        /\ r.workspace_id = t.workspace_id
          IN  /\ \A j \in ItemIds \ {i} :
                     tasks'[j] = tasks[j] /\ views'[j] = views[j]
              /\ rows' = rows /\ pending' = pending
              /\ (t.pc = "spawned" =>
                     IF stored
                     THEN tasks'[i].pc = "find_or_create_worktree"
                     ELSE /\ last'.result = "No image path found"
                          /\ views'[i] = NoView)
              /\ (t.pc = "find_or_create_worktree" =>
                     \/ tasks'[i].pc = "open_image"
                     \/ last'.result = "Path not found" /\ views'[i] = NoView)
              /\ (t.pc = "open_image" =>
                     \/ /\ last'.result = "Ok"
                        /\ views'[i].state = "Loaded"
                        /\ views'[i].image_item = t.image_path
                     \/ last'.result = "open_image failed" /\ views'[i] = NoView)]_vars

\* C15 witness: one item's deserialize failed while a sibling's task, which
\* had found its path, was in flight, and the sibling is still in flight.
C15_Witness ==
    /\ last.op = "deserialize_done"
    /\ last.result # "Ok"
    /\ \E j \in ItemIds \ {last.item_id} :
           tasks[j].pc \in {"find_or_create_worktree", "open_image"}

\* C15 witness of the sibling's success: an item ended Loaded while no sibling
\* has a view or a task: its siblings' restores have failed.
C15_WitnessLoaded ==
    /\ last.op = "deserialize_done"
    /\ last.result = "Ok"
    /\ views[last.item_id].state = "Loaded"
    /\ \A j \in ItemIds \ {last.item_id} : views[j] = NoView /\ tasks[j] = NoTask

\* C16: closing a view leaves the store as it was and spawns no write; an
\* item that has a row keeps a row through every step but a cleanup of the
\* row's workspace whose alive_items omit the item, and after such a cleanup
\* the item has no row in that workspace.
C16_CloseWritesNothing ==
    [][/\ last'.op = "close" => rows' = rows /\ pending' = pending
       /\ \A r \in rows :
             LET omitted == /\ last'.op = "cleanup"
                            /\ last'.workspace = r.workspace_id
                            /\ r.item_id \notin BoundIds(last'.alive_items)
             IN  IF omitted
                 THEN ~\E s \in rows' : s.item_id = r.item_id
                 ELSE \E s \in rows' : s.item_id = r.item_id]_vars

\* C16 witness: the view of an item with a saved row was closed, the row is
\* still there, and no write is in flight.
C16_Witness ==
    /\ last.op = "close"
    /\ \E r \in rows : r.item_id = last.item_id
    /\ views[last.item_id] = NoView
    /\ pending = <<>>

\* C16 witness of the reconciliation: a cleanup deleted the row of a closed
\* item.
C16_WitnessReconciled ==
    /\ last.op = "cleanup"
    /\ last.deleted
    /\ rows = {}
    /\ \A i \in ItemIds : views[i] = NoView

\* C17: whatever the order in which the writes in flight for an item are
\* run, each write that is applied leaves exactly one row for the item, the
\* row it wrote; so once no write is in flight the item has exactly one row,
\* with the path of the write that was applied last.
C17_LastWriteWins ==
    (last.op = "save_image_path" /\ last.ok /\ last.cause = "serialize") =>
        /\ Cardinality({r \in rows : r.item_id = last.item_id}) = 1
        /\ \A r \in rows :
               r.item_id = last.item_id =>
                   /\ r.image_path = last.image_path
                   /\ r.workspace_id = last.workspace_id

\* C17 witness: of two writes in flight for the item, with different paths,
\* the one spawned second has been applied and the one spawned first (behind
\* no other write) is still in flight: the first call's write will be the
\* last one applied.
C17_Witness ==
    /\ last.op = "save_image_path"
    /\ last.ok
    /\ Len(pending) = 1
    /\ pending[1].behind = 0
    /\ pending[1].item_id = last.item_id
    /\ pending[1].workspace_id = last.workspace_id
    /\ pending[1].image_path # last.image_path
    /\ \E r \in rows : r.image_path = last.image_path

\* C18: a deserialize task dropped at any of its awaits leaves no view and no
\* task for the item, so no view of it becomes Loaded from that task; and no
\* step of a deserialize - the call, its awaits, its end in Ok or in an
\* error, its cancellation - changes the store or spawns a write.
C18_CancelDiscards ==
    [][last'.op \in {"deserialize", "deserialize_step", "deserialize_done",
                     "deserialize_cancelled"} =>
          /\ rows' = rows
          /\ workspaces' = workspaces
          /\ pending' = pending
          /\ (last'.op = "deserialize_cancelled" =>
                 /\ tasks[last'.item_id].pc = last'.pc
                 /\ last'.pc \in {"spawned", "find_or_create_worktree", "open_image"}
                 /\ tasks'[last'.item_id] = NoTask
                 /\ views'[last'.item_id] = NoView
                 /\ \A j \in ItemIds \ {last'.item_id} : views'[j] = views[j])
          /\ (\A i \in ItemIds :
                 (views[i].state = "Unloaded" /\ views'[i].state = "Loaded") =>
                     /\ last'.op = "deserialize_done"
                     /\ last'.item_id = i
                     /\ tasks[i].pc = "open_image")]_vars

\* C18 witness: the task was dropped while it awaited open_image, the item's
\* path being stored: there is no view and the row is still there.
C18_Witness ==
    /\ last.op = "deserialize_cancelled"
    /\ last.pc = "open_image"
    /\ views[last.item_id] = NoView
    /\ tasks[last.item_id] = NoTask
    /\ \E r \in rows : r.item_id = last.item_id

\* C18 witness of the first await: the task was dropped before its first poll.
C18_WitnessSpawned ==
    /\ last.op = "deserialize_cancelled"
    /\ last.pc = "spawned"

\* C19 as stated: on a FileHandleChanged or Reloaded event of an image item,
\* every Loaded view over that item - a duplicate made by clone_on_split
\* included - emits exactly one TitleChanged and requests one redraw. The
\* duplicate is built without cx.subscribe, so on_image_event never runs in
\* it and it emits nothing.
C19_EveryViewEmits ==
    (last.op = "image_event" /\ last.event \in {"FileHandleChanged", "Reloaded"}) =>
        \A i \in ItemIds :
            (views[i].state = "Loaded" /\ views[i].image_item = last.image_item) =>
                last.title_changed[i] = 1 /\ last.notified[i] = 1

\* C20: once the write of a serialize has completed, the store holds the row
\* (item_id, workspace_id, P) it wrote; the items that a deserialize can
\* restore for a workspace are exactly those with a row under it, and no item
\* has two rows; the lookup of a deserialize yields exactly the path of the
\* item's row under the workspace, and a deserialize that ends Ok returns a
\* Loaded view over the image item opened at the path it looked up.
C20_SessionRoundTrip ==
    /\ [](/\ (last.op = "save_image_path" /\ last.ok /\ last.cause = "serialize") =>
               /\ Row(last.workspace_id, last.item_id, last.image_path) \in rows
               /\ lookup_image_path(rows, last.item_id, last.workspace_id).image_path
                     = last.image_path
          /\ \A i \in ItemIds : \A w \in WorkspaceIds :
                 LET stored == {r \in rows : r.item_id = i /\ r.workspace_id = w}
                 IN  /\ lookup_image_path(rows, i, w).ok <=> stored # {}
                     /\ Cardinality({r \in rows : r.item_id = i}) <= 1)
    /\ [][/\ \A i \in ItemIds :
                (tasks[i].pc = "spawned" /\ tasks'[i].pc = "find_or_create_worktree") =>
                    Row(tasks[i].workspace_id, i, tasks'[i].image_path) \in rows
          /\ \A i \in ItemIds :
                (tasks[i].pc # "idle" /\ tasks'[i].pc \notin {"idle", "spawned"}
                    /\ tasks[i].pc # "spawned") =>
                    tasks'[i].image_path = tasks[i].image_path
          /\ (last'.op = "deserialize_done" /\ last'.result = "Ok") =>
                /\ views'[last'.item_id].state = "Loaded"
                /\ views'[last'.item_id].image_item = tasks[last'.item_id].image_path
                /\ last'.image_path = tasks[last'.item_id].image_path
                /\ last'.had_row]_vars

\* C20 witness: an item restored by deserialize, Loaded over the image at the
\* path of its row, the row written by a serialize of the session before.
C20_Witness ==
    /\ last.op = "deserialize_done"
    /\ last.result = "Ok"
    /\ views[last.item_id].state = "Loaded"
    /\ Row(last.workspace_id, last.item_id, views[last.item_id].image_item) \in rows

\* C20 witness of a removed row: the workspace of a serialized item was
\* deleted and the deserialize of the item found no path.
C20_WitnessRemoved ==
    /\ last.op = "deserialize_done"
    /\ last.result = "No image path found"
    /\ last.workspace_id \notin workspaces

\* C10 as stated: serialize is skipped exactly when the file has no local
\* absolute path, and otherwise spawns a write.
C10_SkippedOnlyWithoutLocalPath ==
    last.op = "serialize" => (last.some <=> last.abs_path # None)

\* C10 amended: serialize is skipped (returns None, spawns nothing, store
\* unchanged) when the file has no local absolute path or the workspace has no
\* database id; otherwise it spawns exactly one write of (item_id,
\* workspace_id, absolute path) and leaves the store unchanged itself.
C10_SkipOrSpawnOne ==
    [][last'.op = "serialize" =>
          /\ rows' = rows
          /\ IF last'.abs_path = None \/ last'.database_id = NoDatabaseId
             THEN ~last'.some /\ pending' = pending
             ELSE /\ last'.some
                  /\ pending' = Append(pending,
                         [item_id |-> last'.item_id,
                          workspace_id |-> last'.database_id,
                          image_path |-> last'.abs_path,
                          cause |-> "serialize",
                          behind |-> Len(pending)])]_vars

\* C10 witness: serialize of a view with a local file in a workspace without
\* database id spawned nothing.
C10_Witness ==
    /\ last.op = "serialize"
    /\ last.abs_path # None
    /\ last.database_id = NoDatabaseId
    /\ ~last.some

\* C10 witness of the write: serialize spawned a write while the item already
\* had a row.
C10_WitnessSpawned ==
    /\ last.op = "serialize"
    /\ last.some
    /\ rows # {}

====
